---- MODULE Spec2Model ----
(***************************************************************************)
(* A model of the pancard package: PANValidator (validator.py),           *)
(* PANDecoder (decoder.py) and the command-line program (cli.py).         *)
(*                                                                         *)
(* A Python str is a sequence of characters; a character is a one-symbol  *)
(* string, and a non-ASCII character is written as its code point         *)
(* ("U00C9" is LATIN CAPITAL LETTER E WITH ACUTE).  A text produced by an *)
(* f-string is the concatenation of its literal pieces (each piece, from   *)
(* one interpolation to the next, is one token) and of the characters of  *)
(* the interpolated values.                                                *)
(***************************************************************************)
EXTENDS Integers, Sequences, FiniteSets, TLC

VARIABLES
    arg,            \* the argument handed to the library operations
    op,             \* the operation called last ("none" before the first call)
    result,         \* its outcome: a returned value or a raised exception
    holder_types,   \* PANDecoder.holder_types, set by PANDecoder.__init__
    pattern,        \* PANValidator.pattern, set by PANValidator.__init__
    argv,           \* the command line of the program: the PAN and the flags
    pc,             \* the position of main() in cli.py
    stdout,         \* what main() has written to standard output
    stderr,         \* what main() has written to standard error
    exit_code,      \* the exit status of the process (-1 while it runs)
    calls,          \* the operations main() has called, in order
    kept            \* what a caller has kept of the outcomes of its calls

vars == <<arg, op, result, holder_types, pattern, argv, pc, stdout, stderr, exit_code,
          calls, kept>>

libvars == <<arg, op, result>>
objvars == <<holder_types, pattern>>
clivars == <<argv, pc, stdout, stderr, exit_code, calls>>

-----------------------------------------------------------------------------
(* Characters and the str methods the package uses.                        *)

UpperLetters == <<"A","B","C","D","E","F","G","H","I","J","K","L","M",
                  "N","O","P","Q","R","S","T","U","V","W","X","Y","Z">>
LowerLetters == <<"a","b","c","d","e","f","g","h","i","j","k","l","m",
                  "n","o","p","q","r","s","t","u","v","w","x","y","z">>
Digits == <<"0","1","2","3","4","5","6","7","8","9">>

Range(f) == {f[i] : i \in DOMAIN f}

AsciiUpper == Range(UpperLetters)
AsciiLower == Range(LowerLetters)
AsciiDigit == Range(Digits)

\* Non-ASCII characters of the model, by code point:
\*   U00C9 E WITH ACUTE (capital), U00E9 e with acute (small),
\*   U00DF sharp s (small; its upper case is the two letters "SS"),
\*   U0663 ARABIC-INDIC DIGIT THREE.
OtherLetters == {"U00C9", "U00E9", "U00DF"}
OtherDigits == {"U0663"}

\* The characters str.strip() removes.
Whitespace == {" ", "\t", "\n"}

\* str.isalpha() and str.isdigit() for one character (Unicode classes).
CharIsAlpha(c) == c \in AsciiUpper \cup AsciiLower \cup OtherLetters
CharIsDigit(c) == c \in AsciiDigit \cup OtherDigits

\* str.isalpha(): true when the string is not empty and every character is a letter.
isalpha(s) == Len(s) > 0 /\ \A i \in 1..Len(s) : CharIsAlpha(s[i])

\* str.isdigit(): true when the string is not empty and every character is a digit.
isdigit(s) == Len(s) > 0 /\ \A i \in 1..Len(s) : CharIsDigit(s[i])

\* str.upper() for one character: a string, since the upper case of one
\* character may be several.
CharUpper(c) ==
    IF c \in AsciiLower
        THEN <<UpperLetters[CHOOSE i \in 1..26 : LowerLetters[i] = c]>>
    ELSE IF c = "U00E9" THEN <<"U00C9">>
    ELSE IF c = "U00DF" THEN <<"S", "S">>
    ELSE <<c>>

RECURSIVE upper(_)
upper(s) == IF s = <<>> THEN <<>> ELSE CharUpper(Head(s)) \o upper(Tail(s))

\* str.strip(): drop the leading and the trailing whitespace.
RECURSIVE lstrip(_)
lstrip(s) == IF s # <<>> /\ Head(s) \in Whitespace THEN lstrip(Tail(s)) ELSE s

RECURSIVE rstrip(_)
rstrip(s) ==
    IF s # <<>> /\ s[Len(s)] \in Whitespace THEN rstrip(SubSeq(s, 1, Len(s) - 1)) ELSE s

strip(s) == rstrip(lstrip(s))

\* s[a:b] of Python (0-based, end exclusive, clipped to the string).
Slice(s, a, b) ==
    LET hi == IF b < Len(s) THEN b ELSE Len(s) IN
    IF a >= hi THEN <<>> ELSE SubSeq(s, a + 1, hi)

\* str(n) for a natural number n: its decimal digits.
RECURSIVE StrOfNat(_)
StrOfNat(n) == IF n < 10 THEN <<Digits[n + 1]>> ELSE StrOfNat(n \div 10) \o <<Digits[(n % 10) + 1]>>

-----------------------------------------------------------------------------
(* Python values and outcomes.                                             *)

None == [type |-> "NoneType", s |-> <<>>]
Str(s) == [type |-> "str", s |-> s]

\* bool(x): None and the empty string are false.
Truthy(x) == x.type = "str" /\ x.s # <<>>

\* str(x): the string itself, and "None" for None.
str(x) == IF x.type = "str" THEN x.s ELSE <<"N", "o", "n", "e">>

Return(v) == [kind |-> "return", exc |-> "", value |-> v]
Raise(e, m) == [kind |-> "raise", exc |-> e, value |-> m]
NoResult == [kind |-> "none", exc |-> "", value |-> <<>>]

\* A dict literal keeps its keys in the order written: a sequence of items.
Item(k, v) == [key |-> k, value |-> v]
DictKeys(d) == [i \in DOMAIN d |-> d[i].key]
DictHas(d, k) == \E i \in DOMAIN d : d[i].key = k
DictGet(d, k, default) ==
    IF DictHas(d, k) THEN d[CHOOSE i \in DOMAIN d : d[i].key = k].value ELSE default

\* sep.join(parts) for a sequence of one-character strings.
RECURSIVE Join(_, _)
Join(sep, parts) ==
    IF parts = <<>> THEN <<>>
    ELSE IF Len(parts) = 1 THEN <<parts[1]>>
    ELSE <<parts[1], sep>> \o Join(sep, Tail(parts))

-----------------------------------------------------------------------------
(* validator.py: PANValidator                                              *)

\* PAN_PATTERN = r'^[A-Z]{5}[0-9]{4}[A-Z]$': the character classes with their
\* repeat counts, between the anchors ^ and $.
PAN_PATTERN ==
    << [class |-> "A-Z", count |-> 5],
       [class |-> "0-9", count |-> 4],
       [class |-> "A-Z", count |-> 1] >>

\* The characters of a class of a regular expression: ASCII ranges.
InClass(c, class) ==
    IF class = "A-Z" THEN c \in AsciiUpper
    ELSE IF class = "0-9" THEN c \in AsciiDigit
    ELSE FALSE

\* re.compile: the pattern as one character class per position.
RECURSIVE re_compile(_)
re_compile(p) ==
    IF p = <<>> THEN <<>>
    ELSE [i \in 1..p[1].count |-> p[1].class] \o re_compile(Tail(p))

\* compiled.match(s) for a pattern ^...$: the classes match from the start of
\* s, and $ matches at the end of s or just before a final newline.
re_match(compiled, s) ==
    /\ Len(s) >= Len(compiled)
    /\ \A i \in 1..Len(compiled) : InClass(s[i], compiled[i])
    /\ \/ Len(s) = Len(compiled)
       \/ Len(s) = Len(compiled) + 1 /\ s[Len(s)] = "\n"

\* _validate_structure without its membership test.
_validate_structure_any(pan_number) ==
    IF Len(pan_number) < 4 THEN Raise("IndexError", <<"string index out of range">>)
    ELSE Return(TRUE)

\* PANValidator._validate_structure
_validate_structure(pan_number) ==
    LET valid_fourth_chars == <<"P", "C", "H", "F", "A", "T", "B", "L", "J", "G">> IN
    IF Len(pan_number) < 4 THEN Raise("IndexError", <<"string index out of range">>)
    ELSE IF pan_number[4] \notin Range(valid_fourth_chars) THEN Return(FALSE)
    ELSE Return(TRUE)

\* validate without the test for a missing value and without str(): the
\* method strip is looked up on the value itself.
validate_unguarded(x) ==
    IF x.type # "str"
        THEN Raise("AttributeError", <<"'NoneType' object has no attribute 'strip'">>)
    ELSE LET pan_number == upper(strip(x.s)) IN
         IF Len(pan_number) # 10 THEN Return(FALSE)
         ELSE IF ~re_match(pattern, pan_number) THEN Return(FALSE)
         ELSE _validate_structure(pan_number)

\* validate without the conversion to upper case.
validate_noupper(x) ==
    IF ~Truthy(x) THEN Return(FALSE)
    ELSE LET pan_number == strip(str(x)) IN
         IF Len(pan_number) # 10 THEN Return(FALSE)
         ELSE IF ~re_match(pattern, pan_number) THEN Return(FALSE)
         ELSE _validate_structure(pan_number)

\* PANValidator.validate
validate(x) ==
    IF ~Truthy(x) THEN Return(FALSE)
    ELSE LET pan_number == upper(strip(str(x))) IN
         IF Len(pan_number) # 10 THEN Return(FALSE)
         ELSE IF ~re_match(pattern, pan_number) THEN Return(FALSE)
         ELSE _validate_structure(pan_number)

\* The dict valid_fourth_chars of validate_strict.
strict_valid_fourth_chars ==
    << Item("P", "Individual"),
       Item("C", "Company"),
       Item("H", "Hindu Undivided Family (HUF)"),
       Item("F", "Firm"),
       Item("A", "Association of Persons (AOP)"),
       Item("T", "Trust"),
       Item("B", "Body of Individuals (BOI)"),
       Item("L", "Local Authority"),
       Item("J", "Artificial Juridical Person"),
       Item("G", "Government") >>

\* validate_strict with the holder-type test moved before the digit test.
validate_strict_reordered(x) ==
    IF ~Truthy(x) THEN Raise("InvalidPANError", <<"PAN number cannot be empty">>)
    ELSE LET pan_number == upper(strip(str(x))) IN
         IF Len(pan_number) # 10
             THEN Raise("InvalidPANError",
                        <<"PAN must be exactly 10 characters, got ">>
                            \o StrOfNat(Len(pan_number)))
         ELSE IF ~isalpha(Slice(pan_number, 0, 5))
             THEN Raise("InvalidPANError", <<"First 5 characters must be alphabets">>)
         ELSE IF ~DictHas(strict_valid_fourth_chars, pan_number[4])
             THEN Raise("InvalidPANError",
                        <<"Fourth character '", pan_number[4],
                          "' is invalid. Must be one of: ">>
                            \o Join(", ", DictKeys(strict_valid_fourth_chars)))
         ELSE IF ~isdigit(Slice(pan_number, 5, 9))
             THEN Raise("InvalidPANError", <<"Characters 6-9 must be digits">>)
         ELSE IF ~isalpha(<<pan_number[10]>>)
             THEN Raise("InvalidPANError", <<"Last character must be an alphabet">>)
         ELSE Return(TRUE)

\* PANValidator.validate_strict
validate_strict(x) ==
    IF ~Truthy(x) THEN Raise("InvalidPANError", <<"PAN number cannot be empty">>)
    ELSE LET pan_number == upper(strip(str(x))) IN
         IF Len(pan_number) # 10
             THEN Raise("InvalidPANError",
                        <<"PAN must be exactly 10 characters, got ">>
                            \o StrOfNat(Len(pan_number)))
         ELSE IF ~isalpha(Slice(pan_number, 0, 5))
             THEN Raise("InvalidPANError", <<"First 5 characters must be alphabets">>)
         ELSE IF ~isdigit(Slice(pan_number, 5, 9))
             THEN Raise("InvalidPANError", <<"Characters 6-9 must be digits">>)
         ELSE IF Len(pan_number) < 10
             THEN Raise("IndexError", <<"string index out of range">>)
         ELSE IF ~isalpha(<<pan_number[10]>>)
             THEN Raise("InvalidPANError", <<"Last character must be an alphabet">>)
         ELSE IF ~DictHas(strict_valid_fourth_chars, pan_number[4])
             THEN Raise("InvalidPANError",
                        <<"Fourth character '", pan_number[4],
                          "' is invalid. Must be one of: ">>
                            \o Join(", ", DictKeys(strict_valid_fourth_chars)))
         ELSE Return(TRUE)

-----------------------------------------------------------------------------
(* decoder.py: PANDecoder                                                  *)

\* self.holder_types with the entry of 'G' left out.
HOLDER_TYPES_noG ==
    << Item("P", "Individual (Person)"),
       Item("C", "Company"),
       Item("H", "Hindu Undivided Family (HUF)"),
       Item("F", "Firm/Partnership Firm"),
       Item("A", "Association of Persons (AOP)"),
       Item("T", "Trust (AOP)"),
       Item("B", "Body of Individuals (BOI)"),
       Item("L", "Local Authority"),
       Item("J", "Artificial Juridical Person") >>

\* self.holder_types as PANDecoder.__init__ sets it.
HOLDER_TYPES ==
    << Item("P", "Individual (Person)"),
       Item("C", "Company"),
       Item("H", "Hindu Undivided Family (HUF)"),
       Item("F", "Firm/Partnership Firm"),
       Item("A", "Association of Persons (AOP)"),
       Item("T", "Trust (AOP)"),
       Item("B", "Body of Individuals (BOI)"),
       Item("L", "Local Authority"),
       Item("J", "Artificial Juridical Person"),
       Item("G", "Government") >>

\* PANDecoder._get_structure_info
_get_structure_info(pan_number) ==
    [ pattern |-> "AAAAA9999A",
      total_length |-> 10,
      alphabets_count |-> 6,
      digits_count |-> 4,
      format |-> Slice(pan_number, 0, 5) \o <<" (alphabets) + ">>
                    \o Slice(pan_number, 5, 9) \o <<" (digits) + ">>
                    \o <<pan_number[10], " (alphabet)">> ]

\* PANDecoder._get_components
_get_components(pan_number) ==
    [ first_three_letters |->
          [ value |-> Slice(pan_number, 0, 3),
            meaning |-> "Alphabetic series running from AAA to ZZZ" ],
      fourth_letter |->
          [ value |-> <<pan_number[4]>>,
            meaning |-> DictGet(holder_types, pan_number[4], "Unknown"),
            category |-> "Status of the PAN holder" ],
      fifth_letter |->
          [ value |-> <<pan_number[5]>>,
            meaning |-> "First character of the PAN holder's last name/surname",
            category |-> "Name initial" ],
      next_four_digits |->
          [ value |-> Slice(pan_number, 5, 9),
            meaning |-> "Sequential number running from 0001 to 9999",
            category |-> "Unique identification number" ],
      last_letter |->
          [ value |-> <<pan_number[10]>>,
            meaning |-> "Alphabetic check digit",
            category |-> "Check character for verification" ] ]

\* PANDecoder._get_holder_description
_get_holder_description(code) ==
    LET descriptions ==
        << Item("P", "Individual taxpayer (most common type)"),
           Item("C", "Company registered under the Companies Act"),
           Item("H", "Hindu Undivided Family - a specific form of family arrangement recognized under Hindu Law"),
           Item("F", "Partnership Firm or Limited Liability Partnership"),
           Item("A", "Association of Persons or a body of individuals or a local authority or an artificial juridical person"),
           Item("T", "Trust entities including public or private trusts"),
           Item("B", "Body of Individuals - group of individuals carrying on business"),
           Item("L", "Local Authority like Municipalities, Panchayats, etc."),
           Item("J", "Artificial Juridical Person not covered above"),
           Item("G", "Government agencies and departments") >>
    IN DictGet(descriptions, code, "Unknown holder type")

\* PANDecoder._get_holder_type
_get_holder_type(pan_number) ==
    LET fourth_char == pan_number[4] IN
    [ code |-> fourth_char,
      type |-> DictGet(holder_types, fourth_char, "Unknown"),
      description |-> _get_holder_description(fourth_char) ]

\* The loop body with the digit counted from the 1-based position.
BreakdownInfo_position(i, char) ==
    LET position == i + 1 IN
    IF i < 3 THEN
        [ position |-> position, character |-> char, type |-> "Alphabet",
          purpose |-> <<"Part of alphabetic series (AAA-ZZZ)">> ]
    ELSE IF i = 3 THEN
        [ position |-> position, character |-> char, type |-> "Alphabet",
          purpose |-> <<"Holder status - ", DictGet(holder_types, char, "Unknown")>> ]
    ELSE IF i = 4 THEN
        [ position |-> position, character |-> char, type |-> "Alphabet",
          purpose |-> <<"First letter of surname/last name">> ]
    ELSE IF 5 <= i /\ i <= 8 THEN
        [ position |-> position, character |-> char, type |-> "Digit",
          purpose |-> <<"Sequential number (digit ">> \o StrOfNat(position - 4) \o <<" of 4)">> ]
    ELSE
        [ position |-> position, character |-> char, type |-> "Alphabet",
          purpose |-> <<"Check digit for validation">> ]

\* The body of the loop of _get_detailed_breakdown: the entry for the
\* character char at the 0-based index i.
BreakdownInfo(i, char) ==
    LET position == i + 1 IN
    IF i < 3 THEN
        [ position |-> position, character |-> char, type |-> "Alphabet",
          purpose |-> <<"Part of alphabetic series (AAA-ZZZ)">> ]
    ELSE IF i = 3 THEN
        [ position |-> position, character |-> char, type |-> "Alphabet",
          purpose |-> <<"Holder status - ", DictGet(holder_types, char, "Unknown")>> ]
    ELSE IF i = 4 THEN
        [ position |-> position, character |-> char, type |-> "Alphabet",
          purpose |-> <<"First letter of surname/last name">> ]
    ELSE IF 5 <= i /\ i <= 8 THEN
        [ position |-> position, character |-> char, type |-> "Digit",
          purpose |-> <<"Sequential number (digit ">> \o StrOfNat(i - 4) \o <<" of 4)">> ]
    ELSE
        [ position |-> position, character |-> char, type |-> "Alphabet",
          purpose |-> <<"Check digit for validation">> ]

\* _get_detailed_breakdown with the 0-based index as the position.
_get_detailed_breakdown_index(pan_number) ==
    [ k \in 1..Len(pan_number) |->
        [BreakdownInfo(k - 1, pan_number[k]) EXCEPT !.position = k - 1] ]

\* PANDecoder._get_detailed_breakdown: one entry per character, in order.
_get_detailed_breakdown(pan_number) ==
    [ k \in 1..Len(pan_number) |-> BreakdownInfo(k - 1, pan_number[k]) ]

\* A record that holds a reference to the table of the decoder.
SharedObjects_table(decoded) == {"holder_types"}

\* The mutable objects of the decoder that the record decode returns holds a
\* reference to: none, since every dict and list of the record is built by
\* the call, and what is taken from holder_types is a str.
SharedObjects(decoded) == {}

\* decode without the validation before decoding.
decode_ungated(x) ==
    IF ~Truthy(x) THEN Raise("InvalidPANError", <<"PAN number cannot be empty">>)
    ELSE LET pan_number == upper(strip(str(x))) IN
         IF Len(pan_number) < 10
             THEN Raise("IndexError", <<"string index out of range">>)
         ELSE Return([ pan_number |-> pan_number,
                       is_valid |-> TRUE,
                       structure |-> _get_structure_info(pan_number),
                       components |-> _get_components(pan_number),
                       holder_type |-> _get_holder_type(pan_number),
                       detailed_breakdown |-> _get_detailed_breakdown(pan_number) ])

\* decode keeping the argument as given in the record.
decode_raw(x) ==
    IF ~Truthy(x) THEN Raise("InvalidPANError", <<"PAN number cannot be empty">>)
    ELSE LET pan_number == upper(strip(str(x)))
             valid == validate(Str(pan_number))
         IN
         IF valid.kind = "raise" THEN valid
         ELSE IF ~valid.value
             THEN Raise("InvalidPANError", <<"Invalid PAN format: ">> \o pan_number)
         ELSE Return([ pan_number |-> str(x),
                       is_valid |-> TRUE,
                       structure |-> _get_structure_info(pan_number),
                       components |-> _get_components(pan_number),
                       holder_type |-> _get_holder_type(pan_number),
                       detailed_breakdown |-> _get_detailed_breakdown(pan_number) ])

\* PANDecoder.decode
decode(x) ==
    IF ~Truthy(x) THEN Raise("InvalidPANError", <<"PAN number cannot be empty">>)
    ELSE LET pan_number == upper(strip(str(x)))
             valid == validate(Str(pan_number))
         IN
         IF valid.kind = "raise" THEN valid
         ELSE IF ~valid.value
             THEN Raise("InvalidPANError", <<"Invalid PAN format: ">> \o pan_number)
         ELSE IF Len(pan_number) < 10
             THEN Raise("IndexError", <<"string index out of range">>)
         ELSE Return([ pan_number |-> pan_number,
                       is_valid |-> TRUE,
                       structure |-> _get_structure_info(pan_number),
                       components |-> _get_components(pan_number),
                       holder_type |-> _get_holder_type(pan_number),
                       detailed_breakdown |-> _get_detailed_breakdown(pan_number) ])

\* PANDecoder.get_summary
get_summary(x) ==
    LET decoding == decode(x) IN
    IF decoding.kind = "raise" THEN decoding
    ELSE LET decoded == decoding.value
             holder_type == decoded.holder_type.type
             fifth_char == decoded.components.fifth_letter.value
         IN Return(<<"PAN ">> \o str(x)
                     \o <<" belongs to a ", holder_type,
                          ". The surname/last name starts with '">>
                     \o fifth_char
                     \o <<"'. The unique identification number is ">>
                     \o decoded.components.next_four_digits.value
                     \o <<".">>)

-----------------------------------------------------------------------------
(* The arguments the operations are called with.                           *)

\* How many characters of a valid PAN an argument may have replaced.
MaxEdits == 2
\* The longest unpadded argument.
MaxLen == 11
\* The most whitespace characters put before, and after, an argument.
MaxPad == 1

\* "ABCPE1234K", the valid PAN of the tests.
BasePAN == <<"A", "B", "C", "P", "E", "1", "2", "3", "4", "K">>

\* The characters put in place of a character of BasePAN: a letter that is no
\* holder type, a small letter, a digit, a blank, a non-ASCII letter and a
\* non-ASCII digit.
EditChars == {"X", "p", "7", " ", "U00C9", "U0663"}

\* s with the characters at the positions DOMAIN e replaced as e says.
Edit(s, e) == [i \in DOMAIN s |-> IF i \in DOMAIN e THEN e[i] ELSE s[i]]

EditsOf(s, n) ==
    UNION { [S -> EditChars] : S \in {T \in SUBSET (DOMAIN s) : Cardinality(T) <= n} }

\* BasePAN with at most MaxEdits characters replaced.
EditedPANs == {Edit(BasePAN, e) : e \in EditsOf(BasePAN, MaxEdits)}

\* BasePAN with any one letter or digit (or the capital of sharp s, two
\* letters long) as its 4th character.
FourthCharPANs ==
    {Edit(BasePAN, [i \in {4} |-> c]) :
        c \in AsciiUpper \cup AsciiLower \cup AsciiDigit \cup OtherLetters}

\* BasePAN cut or lengthened to every length up to MaxLen, with at most one
\* character replaced.
LengthPANs ==
    LET long == BasePAN \o [i \in 1..MaxLen |-> IF i % 2 = 1 THEN "Z" ELSE "9"]
        cuts == {SubSeq(long, 1, n) : n \in 0..MaxLen}
    IN UNION { {Edit(s, e) : e \in EditsOf(s, 1)} : s \in cuts }

\* BasePAN with any of its characters in small letters.
CasePANs ==
    {[i \in DOMAIN BasePAN |->
        IF i \in S /\ BasePAN[i] \in AsciiUpper
            THEN LowerLetters[CHOOSE k \in 1..26 : UpperLetters[k] = BasePAN[i]]
            ELSE BasePAN[i]] : S \in SUBSET {1, 2, 3, 4, 5, 10}}

\* The fixture invalid_pans of tests/test_pancard.py, its strings.
invalid_pans ==
    { <<"A","B","C","D","E","1","2","3","4","5">>,
      <<"A","B","C","D","1","2","3","4","K">>,
      <<"1","2","C","P","E","1","2","3","4","K">>,
      <<"A","B","C","P","E","1","2","K","4","K">>,
      <<"A","B","C","P","X","1","2","3","4","K">>,
      <<"a","b","c","p","e","1","2","3","4","k">>,
      <<>>,
      <<"A","B","C"," ","P","E","1","2","3","4","K">> }

\* Runs of at most MaxPad blanks or newlines.
Pads == UNION { [1..n -> {" ", "\n"}] : n \in 0..MaxPad }

\* The strings that are padded: the PANs of every holder type, the cuts of
\* BasePAN (the empty string among them) and the small-letter PAN.
PadCores ==
    FourthCharPANs
        \cup {SubSeq(BasePAN, 1, n) : n \in 0..Len(BasePAN)}
        \cup {s \in CasePANs : \A i \in {1, 2, 3, 4, 5, 10} : s[i] \in AsciiLower}

PaddedPANs == {l \o s \o r : l \in Pads, r \in Pads, s \in PadCores}

\* Every string an operation is called with.
Strings ==
    EditedPANs \cup FourthCharPANs \cup LengthPANs \cup CasePANs
        \cup invalid_pans \cup PaddedPANs

\* Every argument: a string, or None.
Inputs == {None} \cup {Str(s) : s \in Strings}

-----------------------------------------------------------------------------
(* The library: one object of each class, and calls of its operations.     *)

\* A caller that keeps nothing, and one that keeps the outcome of its first
\* call of each operation and notes whether it has changed a record decode
\* returned to it.
NoOutcomes ==
    [o \in {"validate", "validate_strict", "decode", "get_summary"} |-> NoResult]
NothingKept == [keeping |-> FALSE, first |-> NoOutcomes, changed |-> FALSE]
KeepingAll == [keeping |-> TRUE, first |-> NoOutcomes, changed |-> FALSE]

\* kept after a call of the operation o with the outcome r.
Keep(o, r) ==
    IF kept.keeping /\ kept.first[o].kind = "none"
        THEN [kept EXCEPT !.first[o] = r]
        ELSE kept

Init ==
    /\ arg \in Inputs
    /\ op = "none"
    /\ result = NoResult
    /\ holder_types = HOLDER_TYPES
    /\ pattern = re_compile(PAN_PATTERN)
    /\ argv = [pan |-> <<>>, validate |-> FALSE, decode |-> FALSE,
               summary |-> FALSE, json |-> FALSE]
    /\ pc = "idle"
    /\ stdout = <<>>
    /\ stderr = <<>>
    /\ exit_code = -1
    /\ calls = <<>>
    /\ kept = NothingKept

\* validator.validate(arg)
Validate ==
    /\ pc = "idle"
    /\ op' = "validate"
    /\ result' = validate(arg)
    /\ kept' = Keep("validate", validate(arg))
    /\ UNCHANGED <<arg, objvars, clivars>>

\* validator.validate_strict(arg)
ValidateStrict ==
    /\ pc = "idle"
    /\ op' = "validate_strict"
    /\ result' = validate_strict(arg)
    /\ kept' = Keep("validate_strict", validate_strict(arg))
    /\ UNCHANGED <<arg, objvars, clivars>>

\* decoder.decode(arg)
Decode ==
    /\ pc = "idle"
    /\ op' = "decode"
    /\ result' = decode(arg)
    /\ kept' = Keep("decode", decode(arg))
    /\ UNCHANGED <<arg, objvars, clivars>>

\* decoder.get_summary(arg)
GetSummary ==
    /\ pc = "idle"
    /\ op' = "get_summary"
    /\ result' = get_summary(arg)
    /\ kept' = Keep("get_summary", get_summary(arg))
    /\ UNCHANGED <<arg, objvars, clivars>>

Next == Validate \/ ValidateStrict \/ Decode \/ GetSummary

Spec == Init /\ [][Next]_vars

\* The arguments of a caller that repeats its calls: the PANs of every 4th
\* character, BasePAN in small letters, the fixture of the tests, and None.
RepeatInputs == {None} \cup {Str(s) : s \in FourthCharPANs \cup CasePANs \cup invalid_pans}

RepeatInit ==
    /\ arg \in RepeatInputs
    /\ op = "none"
    /\ result = NoResult
    /\ holder_types = HOLDER_TYPES
    /\ pattern = re_compile(PAN_PATTERN)
    /\ argv = [pan |-> <<>>, validate |-> FALSE, decode |-> FALSE,
               summary |-> FALSE, json |-> FALSE]
    /\ pc = "idle"
    /\ stdout = <<>>
    /\ stderr = <<>>
    /\ exit_code = -1
    /\ calls = <<>>
    /\ kept = KeepingAll

\* The caller changes the record decode has just returned to it; an object
\* the record shares with the decoder changes with it.
ChangeRecord ==
    /\ pc = "idle"
    /\ kept.keeping
    /\ op = "decode"
    /\ result.kind = "return"
    /\ op' = "none"
    /\ result' = [result EXCEPT !.value.pan_number = <<>>,
                                !.value.holder_type.type = "changed",
                                !.value.detailed_breakdown = <<>>]
    /\ holder_types' =
          IF "holder_types" \in SharedObjects(result.value)
              THEN [i \in DOMAIN holder_types |-> Item(holder_types[i].key, "changed")]
              ELSE holder_types
    /\ kept' = [kept EXCEPT !.changed = TRUE]
    /\ UNCHANGED <<arg, pattern, clivars>>

RepeatNext == Validate \/ ValidateStrict \/ Decode \/ GetSummary \/ ChangeRecord

RepeatSpec == RepeatInit /\ [][RepeatNext]_vars

-----------------------------------------------------------------------------
(* cli.py: main().  The process starts with its command line parsed; each  *)
(* action is one block of main().                                          *)

\* The PAN arguments of the command line: BasePAN with at most one
\* character replaced, the PANs of every 4th character, the fixture of the
\* tests, and BasePAN and the empty string padded.
CliPANs ==
    {Edit(BasePAN, e) : e \in EditsOf(BasePAN, 1)}
        \cup FourthCharPANs \cup invalid_pans
        \cup {l \o s \o r : l \in Pads, r \in Pads, s \in {<<>>, BasePAN}}

\* What print() writes: a line of text, or the text json.dumps makes of an
\* object.
Text(tokens) == [text |-> tokens]
Json(obj) == [json |-> obj]

\* s * n of Python: s repeated n times.
Repeat(s, n) == [i \in 1..n |-> s]

\* str(b) for a bool.
StrOfBool(b) == IF b THEN "True" ELSE "False"

\* The lines main() prints for a decoded record when JSON is not asked for.
AnalysisLines(pan_number, decoded) ==
    << Text(<<"\nPAN Card Analysis: ">> \o pan_number),
       Text(Repeat("=", 50)),
       Text(<<"Valid: ", StrOfBool(decoded.is_valid)>>),
       Text(<<"Holder Type: ", decoded.holder_type.type>>),
       Text(<<"Description: ", decoded.holder_type.description>>),
       Text(<<"\nCharacter Breakdown:">>),
       Text(Repeat("-", 30)) >>
    \o [ k \in DOMAIN decoded.detailed_breakdown |->
           LET item == decoded.detailed_breakdown[k] IN
           Text(<<"Position ">> \o StrOfNat(item.position)
                    \o <<": '", item.character, "' - ">> \o item.purpose) ]

CliInit ==
    /\ argv \in [pan : CliPANs, validate : BOOLEAN, decode : BOOLEAN,
                 summary : BOOLEAN, json : BOOLEAN]
    /\ pc = "start"
    /\ arg = None
    /\ op = "none"
    /\ result = NoResult
    /\ holder_types = HOLDER_TYPES
    /\ pattern = re_compile(PAN_PATTERN)
    /\ stdout = <<>>
    /\ stderr = <<>>
    /\ exit_code = -1
    /\ calls = <<>>
    /\ kept = NothingKept

\* The handler "except Exception as e" around the body of main().
CliUncaught(r) ==
    /\ stderr' = Append(stderr, Text(<<"Error: ">> \o r.value))
    /\ exit_code' = 1
    /\ pc' = "done"
    /\ UNCHANGED stdout

\* The start of main(): decode is the default, and the PAN is normalized.
CliStart ==
    /\ pc = "start"
    /\ argv' = [argv EXCEPT !.decode =
                    IF ~argv.validate /\ ~argv.decode /\ ~argv.summary THEN TRUE ELSE @]
    /\ arg' = Str(upper(strip(argv.pan)))
    /\ pc' = "validate"
    /\ UNCHANGED <<op, result, objvars, stdout, stderr, exit_code, calls, kept>>

\* The block "if args.validate:" without its sys.exit(1).
CliValidate_noexit ==
    /\ pc = "validate"
    /\ IF argv.validate
         THEN LET r == validate(arg) IN
              /\ op' = "validate"
              /\ result' = r
              /\ calls' = Append(calls, "validate")
              /\ IF r.kind = "raise" THEN CliUncaught(r)
                 ELSE /\ stdout' = Append(stdout,
                            IF argv.json
                                THEN Json([pan |-> arg.s, valid |-> r.value])
                            ELSE IF r.value
                                THEN Text(<<"U2713 ">> \o arg.s \o <<" is a valid PAN">>)
                            ELSE Text(<<"U2717 ">> \o arg.s \o <<" is not a valid PAN">>))
                      /\ pc' = "decode"
                      /\ UNCHANGED <<stderr, exit_code>>
         ELSE /\ pc' = "decode"
              /\ UNCHANGED <<op, result, stdout, stderr, exit_code, calls>>
    /\ UNCHANGED <<arg, argv, objvars, kept>>

\* The block "if args.validate:".
CliValidate ==
    /\ pc = "validate"
    /\ IF argv.validate
         THEN LET r == validate(arg) IN
              /\ op' = "validate"
              /\ result' = r
              /\ calls' = Append(calls, "validate")
              /\ IF r.kind = "raise" THEN CliUncaught(r)
                 ELSE /\ stdout' = Append(stdout,
                            IF argv.json
                                THEN Json([pan |-> arg.s, valid |-> r.value])
                            ELSE IF r.value
                                THEN Text(<<"U2713 ">> \o arg.s \o <<" is a valid PAN">>)
                            ELSE Text(<<"U2717 ">> \o arg.s \o <<" is not a valid PAN">>))
                      /\ IF ~r.value
                           THEN exit_code' = 1 /\ pc' = "done"
                           ELSE exit_code' = exit_code /\ pc' = "decode"
                      /\ UNCHANGED stderr
         ELSE /\ pc' = "decode"
              /\ UNCHANGED <<op, result, stdout, stderr, exit_code, calls>>
    /\ UNCHANGED <<arg, argv, objvars, kept>>

\* The block "if args.decode:".
CliDecode ==
    /\ pc = "decode"
    /\ IF argv.decode
         THEN LET r == decode(arg) IN
              /\ op' = "decode"
              /\ result' = r
              /\ calls' = Append(calls, "decode")
              /\ IF r.kind = "return"
                   THEN /\ stdout' = IF argv.json
                                       THEN Append(stdout, Json(r.value))
                                       ELSE stdout \o AnalysisLines(arg.s, r.value)
                        /\ pc' = "summary"
                        /\ UNCHANGED <<stderr, exit_code>>
                 ELSE IF r.exc = "InvalidPANError"
                   THEN /\ stdout' = Append(stdout,
                              IF argv.json THEN Json([error |-> r.value])
                              ELSE Text(<<"Error: ">> \o r.value))
                        /\ exit_code' = 1
                        /\ pc' = "done"
                        /\ UNCHANGED stderr
                 ELSE CliUncaught(r)
         ELSE /\ pc' = "summary"
              /\ UNCHANGED <<op, result, stdout, stderr, exit_code, calls>>
    /\ UNCHANGED <<arg, argv, objvars, kept>>

\* The block "if args.summary:", and the return of main().
CliSummary ==
    /\ pc = "summary"
    /\ IF argv.summary
         THEN LET r == get_summary(arg) IN
              /\ op' = "get_summary"
              /\ result' = r
              /\ calls' = Append(calls, "get_summary")
              /\ IF r.kind = "return"
                   THEN /\ stdout' = Append(stdout,
                              IF argv.json THEN Json([pan |-> arg.s, summary |-> r.value])
                              ELSE Text(<<"\nSummary: ">> \o r.value))
                        /\ exit_code' = 0
                        /\ pc' = "done"
                        /\ UNCHANGED stderr
                 ELSE IF r.exc = "InvalidPANError"
                   THEN /\ stdout' = Append(stdout,
                              IF argv.json THEN Json([error |-> r.value])
                              ELSE Text(<<"Error: ">> \o r.value))
                        /\ exit_code' = 1
                        /\ pc' = "done"
                        /\ UNCHANGED stderr
                 ELSE CliUncaught(r)
         ELSE /\ exit_code' = 0
              /\ pc' = "done"
              /\ UNCHANGED <<op, result, stdout, stderr, calls>>
    /\ UNCHANGED <<arg, argv, objvars, kept>>

CliNext == CliStart \/ CliValidate \/ CliDecode \/ CliSummary

CliSpec == CliInit /\ [][CliNext]_vars

-----------------------------------------------------------------------------
(* The properties.                                                         *)

\* Normalization: surrounding whitespace removed, then letters upper-cased.
normalize(s) == upper(strip(s))

\* The holder-type codes.
HolderCodes == {"P", "C", "H", "F", "A", "T", "B", "L", "J", "G"}

\* n has the shape [A-Z]{5}[0-9]{4}[A-Z].
HasPANShape(n) ==
    /\ Len(n) = 10
    /\ \A i \in 1..5 : n[i] \in AsciiUpper
    /\ \A i \in 6..9 : n[i] \in AsciiDigit
    /\ n[10] \in AsciiUpper

ViolatedRules(x) ==
    LET n == normalize(str(x)) IN
      {k \in {1} : x = None \/ x.s = <<>>}
    \cup {k \in {2} : Len(n) # 10}
    \cup {k \in {3} : ~(Len(n) >= 5 /\ \A i \in 1..5 : CharIsAlpha(n[i]))}
    \cup {k \in {4} : ~(Len(n) >= 9 /\ \A i \in 6..9 : CharIsDigit(n[i]))}
    \cup {k \in {5} : ~(Len(n) >= 10 /\ CharIsAlpha(n[10]))}
    \cup {k \in {6} : ~(Len(n) >= 4 /\ n[4] \in HolderCodes)}

\* The message of the error for rule k, for the normalized argument n.
RuleMessage(k, n) ==
    CASE k = 1 -> <<"PAN number cannot be empty">>
      [] k = 2 -> <<"PAN must be exactly 10 characters, got ">> \o StrOfNat(Len(n))
      [] k = 3 -> <<"First 5 characters must be alphabets">>
      [] k = 4 -> <<"Characters 6-9 must be digits">>
      [] k = 5 -> <<"Last character must be an alphabet">>
      [] k = 6 -> <<"Fourth character '", n[4], "' is invalid. Must be one of: ",
                    "P", ", ", "C", ", ", "H", ", ", "F", ", ", "A", ", ",
                    "T", ", ", "B", ", ", "L", ", ", "J", ", ", "G">>

Least(S) == CHOOSE k \in S : \A j \in S : k <= j

Rejected(x) == validate(x) = Return(FALSE)

\* C3: for every argument that validate rejects, decode raises
\* InvalidPANError and returns no record, and get_summary raises the error
\* decode raises.
C3_InvalidFails ==
    Rejected(arg) =>
        /\ op = "decode" =>
              /\ result.kind = "raise"
              /\ result.exc = "InvalidPANError"
        /\ op = "get_summary" =>
              /\ result.kind = "raise"
              /\ result.exc = "InvalidPANError"
              /\ result = decode(arg)

\* get_summary has failed for a non-empty string that validate rejects.
C3_Witness ==
    /\ op = "get_summary"
    /\ Truthy(arg)
    /\ Rejected(arg)
    /\ result.kind = "raise"

\* C4: for every argument that validate accepts, decode returns a record
\* whose is_valid is true and whose pan_number is the argument normalized.
C4_DecodeValid ==
    (op = "decode" /\ validate(arg) = Return(TRUE)) =>
        /\ result.kind = "return"
        /\ result.value.is_valid = TRUE
        /\ result.value.pan_number = normalize(arg.s)

\* decode has returned a record for a valid PAN given padded or in small
\* letters.
C4_Witness ==
    /\ op = "decode"
    /\ validate(arg) = Return(TRUE)
    /\ arg.s # normalize(arg.s)
    /\ result.kind = "return"

\* The holder category of a code.
CategoryOf(c) ==
    CASE c = "P" -> "Individual (Person)"
      [] c = "C" -> "Company"
      [] c = "H" -> "Hindu Undivided Family (HUF)"
      [] c = "F" -> "Firm/Partnership Firm"
      [] c = "A" -> "Association of Persons (AOP)"
      [] c = "T" -> "Trust (AOP)"
      [] c = "B" -> "Body of Individuals (BOI)"
      [] c = "L" -> "Local Authority"
      [] c = "J" -> "Artificial Juridical Person"
      [] c = "G" -> "Government"
      [] OTHER -> "Unknown"

\* The sentence of the summary for the normalized PAN n.
SummarySentence(n) ==
    <<"PAN ">> \o n
        \o <<" belongs to a ", CategoryOf(n[4]), ". The surname/last name starts with '",
             n[5], "'. The unique identification number is ">>
        \o SubSeq(n, 6, 9) \o <<".">>

\* C5: for every argument that decode accepts, get_summary returns the
\* sentence built from the normalized PAN, so that arguments differing only
\* in case or surrounding whitespace have the same summary.
C5_SummaryNormalized ==
    (op = "get_summary" /\ decode(arg).kind = "return") =>
        result = Return(SummarySentence(normalize(arg.s)))

\* C6: in the breakdown of decode, the entry of each position 6 to 9 has the
\* purpose "Sequential number (digit k of 4)" with k = position - 4.
C6_DigitIsPositionMinus4 ==
    (op = "decode" /\ result.kind = "return") =>
        \A pos \in 6..9 :
            result.value.detailed_breakdown[pos].purpose =
                <<"Sequential number (digit ">> \o StrOfNat(pos - 4) \o <<" of 4)">>

\* C6 as amended: the purpose is "Sequential number (digit k of 4)" with
\* k = position - 5, the digits 1 to 4.
C6_DigitIsPositionMinus5 ==
    (op = "decode" /\ result.kind = "return") =>
        \A pos \in 6..9 :
            result.value.detailed_breakdown[pos].purpose =
                <<"Sequential number (digit ">> \o StrOfNat(pos - 5) \o <<" of 4)">>

\* decode has returned a breakdown that has the positions 6 to 9.
C6_Witness ==
    /\ op = "decode"
    /\ result.kind = "return"
    /\ 9 \in DOMAIN result.value.detailed_breakdown
    /\ result.value.detailed_breakdown[9].type = "Digit"

\* C7: for every valid PAN the breakdown has exactly 10 entries in order;
\* entry i has position i and the i-th character of the normalized PAN;
\* entries 6 to 9 are of type "Digit" and the others of type "Alphabet"; the
\* purpose of entry 4 names the category of the 4th character in the
\* decoder's table.
C7_Breakdown ==
    (op = "decode" /\ validate(arg) = Return(TRUE)) =>
        /\ result.kind = "return"
        /\ LET b == result.value.detailed_breakdown
               n == normalize(arg.s)
           IN /\ DOMAIN b = 1..10
              /\ \A i \in 1..10 :
                    /\ b[i].position = i
                    /\ b[i].character = n[i]
                    /\ b[i].type = (IF i \in 6..9 THEN "Digit" ELSE "Alphabet")
              /\ \E k \in DOMAIN holder_types :
                    /\ holder_types[k].key = n[4]
                    /\ b[4].purpose = <<"Holder status - ", holder_types[k].value>>

\* decode has returned the breakdown of a valid PAN whose holder is no
\* individual, given padded or in small letters.
C7_Witness ==
    /\ op = "decode"
    /\ result.kind = "return"
    /\ arg.s # normalize(arg.s)
    /\ Len(result.value.detailed_breakdown) = 10
    /\ result.value.detailed_breakdown[4].character # "P"

\* C8: decode fails with the empty-input error when the argument is missing
\* or empty, also when it is empty after normalization (a whitespace-only
\* string); for every other argument that validate rejects it fails with the
\* invalid-format error carrying the normalized string.
C8_DecodeFailureKinds ==
    (op = "decode" /\ Rejected(arg)) =>
        IF arg = None \/ normalize(arg.s) = <<>>
            THEN result = Raise("InvalidPANError", <<"PAN number cannot be empty">>)
            ELSE result = Raise("InvalidPANError",
                                <<"Invalid PAN format: ">> \o normalize(arg.s))

Requested(a) ==
    (IF a.validate THEN <<"validate">> ELSE <<>>)
        \o (IF a.decode \/ (~a.validate /\ ~a.summary) THEN <<"decode">> ELSE <<>>)
        \o (IF a.summary THEN <<"get_summary">> ELSE <<>>)

\* C10: for every combination of the flags and every PAN argument, the
\* program ends with exit code 0 for a valid PAN, having run every requested
\* operation, and with exit code 1 for an invalid PAN, having run the first
\* requested operation, which fails, and none after it.
C10_ExitCode ==
    /\ pc # "done" => exit_code = -1
    /\ pc = "done" =>
          IF validate(Str(argv.pan)) = Return(TRUE)
              THEN exit_code = 0 /\ calls = Requested(argv)
              ELSE exit_code = 1 /\ calls = <<Requested(argv)[1]>>

\* The program has ended with exit code 1 after validate alone, with
\* validate, decode and summary all asked for.
C10_Witness ==
    /\ pc = "done"
    /\ exit_code = 1
    /\ argv.validate /\ argv.decode /\ argv.summary
    /\ calls = <<"validate">>

\* The line main() prints for an error e when JSON is not asked for.
ErrorLine(e) == Text(<<"Error: ">> \o e.value)

\* C11: in the command-line program, whenever decode or get_summary fails
\* and JSON output is not asked for, the error text is written to standard
\* error and not to standard output.
C11_ErrorToStderr ==
    (/\ pc = "done"
     /\ op \in {"decode", "get_summary"}
     /\ result.kind = "raise"
     /\ ~argv.json) =>
        /\ ErrorLine(result) \in Range(stderr)
        /\ ErrorLine(result) \notin Range(stdout)

\* The entries of the fixture invalid_pans that test_invalid_pans checks:
\* those that are not empty and hold no space.
CheckedInvalidPans == {s \in invalid_pans : s # <<>> /\ " " \notin Range(s)}

AllChars ==
    AsciiUpper \cup AsciiLower \cup AsciiDigit \cup OtherLetters \cup OtherDigits
        \cup Whitespace

\* The keys of the description table of the decoder: the codes it knows.
DescriptionKeys == {c \in AllChars : _get_holder_description(c) # "Unknown holder type"}

\* C14: the 4th characters validate accepts, the keys of validate_strict's
\* table, of the decoder's holder_types and of its description table are
\* exactly P, C, H, F, A, T, B, L, J, G; so for every argument decode accepts,
\* holder_type.code is the 4th character of the normalized PAN, and
\* holder_type.type, holder_type.description, the meaning of fourth_letter
\* and the purpose of position 4 are table entries, never the 'Unknown'
\* fallbacks.
C14_UnknownUnreachable ==
    /\ Range(DictKeys(strict_valid_fourth_chars)) = HolderCodes
    /\ Range(DictKeys(holder_types)) = HolderCodes
    /\ DescriptionKeys = HolderCodes
    /\ (op = "validate" /\ arg.type = "str" /\ HasPANShape(normalize(arg.s))) =>
          result = Return(normalize(arg.s)[4] \in HolderCodes)
    /\ (op = "decode" /\ result.kind = "return") =>
          LET d == result.value
              c == normalize(arg.s)[4]
          IN /\ d.holder_type.code = c
             /\ \E k \in DOMAIN holder_types :
                   /\ holder_types[k].key = c
                   /\ d.holder_type.type = holder_types[k].value
                   /\ d.components.fourth_letter.meaning = holder_types[k].value
                   /\ d.detailed_breakdown[4].purpose =
                          <<"Holder status - ", holder_types[k].value>>
             /\ d.holder_type.type # "Unknown"
             /\ d.components.fourth_letter.meaning # "Unknown"
             /\ d.holder_type.description # "Unknown holder type"

\* decode has returned the record of a PAN of the last code of the tables, G.
C14_Witness ==
    /\ op = "decode"
    /\ result.kind = "return"
    /\ result.value.holder_type.code = "G"
    /\ result.value.holder_type.type = "Government"

\* C15: validate_strict and validate accept the same arguments:
\* validate_strict returns true if and only if validate returns true, and
\* raises InvalidPANError if and only if validate returns false.
C15_StrictAgreesWithValidate ==
    op = "validate_strict" =>
        /\ result = Return(TRUE) <=> validate(arg) = Return(TRUE)
        /\ (result.kind = "raise" /\ result.exc = "InvalidPANError")
              <=> validate(arg) = Return(FALSE)

====
